---- MODULE Spec2Model ----
(***************************************************************************)
(* Model of the pharma sales ETL pipeline (etl_pipeline.py): credential    *)
(* validation at import time, get_engine, load_view with its fallback      *)
(* query, export_csv with its timestamped file name, compute_kpis and the  *)
(* run_pipeline orchestration.                                             *)
(*                                                                         *)
(* A DataFrame is a record [cols, rows]: the set of column names and the   *)
(* sequence of rows (each row a record over cols).  Values that the code   *)
(* rounds to two decimals are kept as integers in hundredths.              *)
(***************************************************************************)
EXTENDS Integers, Sequences, FiniteSets, TLC

VARIABLES
    PG_USER,        \* os.getenv("PG_USER"): Unset, "" or a value
    PG_PASS,        \* os.getenv("PG_PASS")
    db_up,          \* environment: can the database server be reached
    pc,             \* position of the process
    exit_code,      \* process exit status, NotExited while running
    engines,        \* number of engine handles created by get_engine
    idx,            \* position of the running for-loop (1-based)
    dfs,            \* dict label -> DataFrame, as an insertion-ordered sequence
    load_count,     \* view name -> number of load_view calls
    failed,         \* views whose load_view call raised
    last_load,      \* what the most recent load_view call did
    exports,        \* export_csv calls in order: label, timestamp, path
    error,          \* the call whose exception left run_pipeline, or NoError
    kpi_calls,      \* number of compute_kpis calls made by run_pipeline
    kpi_df,         \* result of compute_kpis in run_pipeline
    done_logs,      \* number of completion log lines
    clock,          \* wall clock, index into Stamps
    sales_df,       \* compute_kpis called directly: first argument
    top_sales_df,   \* second argument
    monthly_df,     \* third argument
    monthly_alt,    \* the rows of monthly_df with two neighbours swapped
    called,         \* which of the two direct calls have been made
    kpi_out,        \* outcome of compute_kpis(sales_df, top_sales_df, monthly_df)
    kpi_alt         \* outcome of compute_kpis(sales_df, top_sales_df, monthly_alt)

vars == <<PG_USER, PG_PASS, db_up, pc, exit_code, engines, idx, dfs,
          load_count, failed, last_load, exports, error, kpi_calls, kpi_df,
          done_logs, clock, sales_df, top_sales_df, monthly_df, monthly_alt,
          called, kpi_out, kpi_alt>>

pipeVars == <<PG_USER, PG_PASS, db_up, pc, exit_code, engines, idx, dfs,
              load_count, failed, last_load, exports, error, kpi_calls,
              kpi_df, done_logs, clock>>

kpiVars == <<sales_df, top_sales_df, monthly_df, monthly_alt, called,
             kpi_out, kpi_alt>>

----------------------------------------------------------------------------
(* Bounds *)

MaxSalesRows == 2
MaxTopRows == 2
MaxMonthlyRows == 3
MaxClock == 1

----------------------------------------------------------------------------
(* DataFrames *)

\* pd.DataFrame(): no columns, no rows
EmptyDataFrame == [cols |-> {}, rows |-> <<>>]

\* DataFrame.empty: true when either axis has length 0
empty(df) == df.cols = {} \/ Len(df.rows) = 0

SeqsUpTo(S, n) == UNION {[1..k -> S] : k \in 0..n}

Range(s) == {s[i] : i \in 1..Len(s)}

SalesCols == {"product", "amount_usd"}
TopCols == {"sales_person", "total_sales"}
MonthlyCols == {"year", "month", "total_sales"}

SalesRow == [product : {"A", "B"}, amount_usd : {50, 100}]
TopRow == [sales_person : {"Ann", "Bob"}, total_sales : {5, 9}]
MonthKeys == {<<2024, 9>>, <<2025, 8>>, <<2025, 9>>}
MonthlyRow == {[year |-> k[1], month |-> k[2], total_sales |-> t] :
                  k \in MonthKeys, t \in {0, 1000, 1200}}

\* a non-empty table that lacks the columns compute_kpis reads
OtherTable == [cols |-> {"c"}, rows |-> <<[c |-> 1]>>]

SalesTablesUpTo(n) == {[cols |-> SalesCols, rows |-> r] : r \in SeqsUpTo(SalesRow, n)}
TopTablesUpTo(n) == {[cols |-> TopCols, rows |-> r] : r \in SeqsUpTo(TopRow, n)}
MonthlyTablesUpTo(n) == {[cols |-> MonthlyCols, rows |-> r] : r \in SeqsUpTo(MonthlyRow, n)}

Irregular == {EmptyDataFrame, OtherTable}

----------------------------------------------------------------------------
(* Arithmetic *)

\* round(n / d, 0) for integers n, d with d # 0, ties to even
RoundDiv(n, d) ==
    LET nn == IF d < 0 THEN -n ELSE n
        dd == IF d < 0 THEN -d ELSE d
        q == nn \div dd
        r == nn % dd
    IN  IF 2 * r < dd THEN q
        ELSE IF 2 * r > dd THEN q + 1
        ELSE IF q % 2 = 0 THEN q ELSE q + 1

RECURSIVE SumAmount(_)
SumAmount(rows) ==
    IF rows = <<>> THEN 0
    ELSE rows[1].amount_usd + SumAmount(Tail(rows))

----------------------------------------------------------------------------
(* compute_kpis *)

\* a plausible slip: sort_values(["month", "year"])
KeyLess_MonthFirst(a, b) ==
    a.month < b.month \/ (a.month = b.month /\ a.year < b.year)

\* key order of sort_values(["year", "month"])
KeyLess(a, b) == a.year < b.year \/ (a.year = b.year /\ a.month < b.month)

\* insert row r after every row whose key is not greater (stable)
RECURSIVE InsertSorted(_, _)
InsertSorted(r, s) ==
    IF s = <<>> THEN <<r>>
    ELSE IF KeyLess(r, s[1]) THEN <<r>> \o s
    ELSE <<s[1]>> \o InsertSorted(r, Tail(s))

\* monthly_df.sort_values(["year", "month"]): ascending, ties keep input order
RECURSIVE sort_values(_)
sort_values(rows) ==
    IF rows = <<>> THEN <<>>
    ELSE InsertSorted(rows[Len(rows)], sort_values(SubSeq(rows, 1, Len(rows) - 1)))

\* lines 121-128, in hundredths of a percent after round(.., 2)
monthly_growth_pct(monthly) ==
    IF empty(monthly) THEN 0
    ELSE LET mdf == sort_values(monthly.rows)
             last == mdf[Len(mdf)].total_sales
             prev == IF Len(mdf) > 1 THEN mdf[Len(mdf) - 1].total_sales ELSE last
         IN  IF prev # 0 THEN RoundDiv((last - prev) * 10000, prev) ELSE 0

\* a plausible slip: the row with the largest total_sales instead of the first
iloc0_Largest(df) ==
    CHOOSE r \in Range(df.rows) : \A q \in Range(df.rows) : q.total_sales <= r.total_sales

\* top_sales_df.iloc[0], lines 118-119
iloc0(df) == df.rows[1]

Raise == [raised |-> TRUE, df |-> EmptyDataFrame]
Return(df) == [raised |-> FALSE, df |-> df]

KpiCols == {"total_revenue", "total_orders", "avg_order_value",
            "avg_revenue_per_product", "top_salesperson",
            "top_salesperson_revenue", "monthly_growth_pct"}

\* the column reads of lines 110-125 that raise KeyError
missing_columns(sales, top, monthly) ==
    \/ ~(SalesCols \subseteq sales.cols)
    \/ ~empty(top) /\ ~(TopCols \subseteq top.cols)
    \/ ~empty(monthly) /\ ~(MonthlyCols \subseteq monthly.cols)

\* the kpis dict of lines 131-139, for a non-empty sales table
kpis(sales, top, monthly) ==
    LET total_revenue == SumAmount(sales.rows)
        total_orders == Len(sales.rows)
        products == {sales.rows[i].product : i \in 1..Len(sales.rows)}
    IN  [total_revenue |-> total_revenue * 100,
         total_orders |-> total_orders,
         avg_order_value |->
             IF total_orders > 0 THEN RoundDiv(total_revenue * 100, total_orders) ELSE 0,
         avg_revenue_per_product |->
             RoundDiv(total_revenue * 100, Cardinality(products)),
         top_salesperson |->
             IF ~empty(top) THEN iloc0(top).sales_person ELSE "N/A",
         top_salesperson_revenue |->
             IF ~empty(top) THEN iloc0(top).total_sales * 100 ELSE 0,
         monthly_growth_pct |-> monthly_growth_pct(monthly)]

\* a plausible slip: the columns are read before the empty test
compute_kpis_ColumnsFirst(sales, top, monthly) ==
    IF missing_columns(sales, top, monthly) THEN Raise
    ELSE IF empty(sales) THEN Return(EmptyDataFrame)
    ELSE Return([cols |-> KpiCols, rows |-> <<kpis(sales, top, monthly)>>])

compute_kpis(sales, top, monthly) ==
    IF empty(sales) THEN Return(EmptyDataFrame)
    ELSE IF missing_columns(sales, top, monthly) THEN Raise
    ELSE Return([cols |-> KpiCols, rows |-> <<kpis(sales, top, monthly)>>])

----------------------------------------------------------------------------
(* Configuration *)

Unset == "<unset>"
CredValues == {Unset, "", "secret"}

\* a plausible slip: "is None" instead of truthiness
falsy_NoneOnly(v) == v = Unset

\* Python truthiness of os.getenv's result: None and "" are falsy
falsy(v) == v = Unset \/ v = ""

OUTPUT_DIR == "./outputs"

\* the views dict of run_pipeline, in insertion order
views == <<
    [view |-> "vw_sales_export", label |-> "sales_export"],
    [view |-> "summary_sales_country", label |-> "sales_by_country"],
    [view |-> "summary_sales_person", label |-> "sales_by_salesperson"],
    [view |-> "summary_product_sales", label |-> "sales_by_product"],
    [view |-> "summary_deal_size", label |-> "deal_size"],
    [view |-> "vw_monthly_sales", label |-> "monthly_sales"],
    [view |-> "vw_null_summary", label |-> "data_quality"] >>

ViewNames == {views[i].view : i \in 1..Len(views)}
Labels == {views[i].label : i \in 1..Len(views)}

\* what the database may hold for a view
ViewContents(view) ==
    IF view = "vw_sales_export" THEN
        {[cols |-> SalesCols, rows |-> <<>>],
         [cols |-> SalesCols, rows |-> <<[product |-> "A", amount_usd |-> 100],
                                         [product |-> "B", amount_usd |-> 50]>>]}
    ELSE IF view = "summary_sales_person" THEN
        {[cols |-> TopCols, rows |-> <<>>],
         [cols |-> TopCols, rows |-> <<[sales_person |-> "Ann", total_sales |-> 5],
                                       [sales_person |-> "Bob", total_sales |-> 9]>>]}
    ELSE IF view = "vw_monthly_sales" THEN
        {[cols |-> MonthlyCols,
          rows |-> <<[year |-> 2025, month |-> 9, total_sales |-> 1200],
                     [year |-> 2025, month |-> 8, total_sales |-> 1000]>>]}
    ELSE {OtherTable}

----------------------------------------------------------------------------
(* dict operations on an insertion-ordered sequence of [label, df] *)

HasKey(d, k) == \E i \in 1..Len(d) : d[i].label = k

\* d[k] = v
DictSet(d, k, v) ==
    IF HasKey(d, k)
    THEN [i \in 1..Len(d) |-> IF d[i].label = k THEN [label |-> k, df |-> v] ELSE d[i]]
    ELSE Append(d, [label |-> k, df |-> v])

\* d.get(k, default)
DictGet(d, k, default) ==
    IF HasKey(d, k)
    THEN (CHOOSE e \in Range(d) : e.label = k).df
    ELSE default

----------------------------------------------------------------------------
(* load_view *)

\* outcome of one read against the database
ReadError == [issued |-> TRUE, err |-> TRUE, df |-> EmptyDataFrame]
ReadOk(df) == [issued |-> TRUE, err |-> FALSE, df |-> df]
NotIssued == [issued |-> FALSE, err |-> FALSE, df |-> EmptyDataFrame]

\* the outcomes a read of the view can have
ReadOutcomes(view) ==
    IF db_up THEN {ReadError} \cup {ReadOk(t) : t \in ViewContents(view)}
    ELSE {ReadError}

\* a plausible slip: the SELECT * query is issued whatever the primary did
load_view_AlwaysFallback(view, primary, fallback) ==
    [view |-> view, primary |-> primary, fallback |-> fallback,
     raised |-> fallback.err, df |-> fallback.df]

\* primary: outcome of pd.read_sql_table; fallback: outcome pd.read_sql has
\* if it is issued
load_view(view, primary, fallback) ==
    IF ~primary.err
    THEN [view |-> view, primary |-> primary, fallback |-> NotIssued,
          raised |-> FALSE, df |-> primary.df]
    ELSE [view |-> view, primary |-> primary, fallback |-> fallback,
          raised |-> fallback.err, df |-> fallback.df]

NoLoad == [view |-> "", primary |-> NotIssued, fallback |-> NotIssued,
           raised |-> FALSE, df |-> EmptyDataFrame]

----------------------------------------------------------------------------
(* export_csv *)

Digit(d) == <<"0", "1", "2", "3", "4", "5", "6", "7", "8", "9">>[d + 1]

\* datetime.now().strftime("%Y%m%d_%H%M%S") at t seconds after 12:00:00
strftime(t) ==
    "20251027_12" \o Digit((t \div 600) % 6) \o Digit((t \div 60) % 10)
                  \o Digit((t \div 10) % 6) \o Digit(t % 10)

\* a plausible slip: the label left out of the file name
export_csv_NoLabel(name, t) ==
    [name |-> name, ts |-> strftime(t),
     path |-> OUTPUT_DIR \o "/" \o "export_" \o strftime(t) \o ".csv"]

\* the path export_csv writes for a label at time t
export_csv(name, t) ==
    [name |-> name, ts |-> strftime(t),
     path |-> OUTPUT_DIR \o "/" \o name \o "_" \o strftime(t) \o ".csv"]

----------------------------------------------------------------------------
(* The process: module-level code, then run_pipeline *)

NotExited == -1
NoError == "none"

InitPipe ==
    /\ PG_USER \in CredValues
    /\ PG_PASS \in CredValues
    /\ db_up \in BOOLEAN
    /\ pc = "startup"
    /\ exit_code = NotExited
    /\ engines = 0
    /\ idx = 0
    /\ dfs = <<>>
    /\ load_count = [v \in ViewNames |-> 0]
    /\ failed = {}
    /\ last_load = NoLoad
    /\ exports = <<>>
    /\ error = NoError
    /\ kpi_calls = 0
    /\ kpi_df = EmptyDataFrame
    /\ done_logs = 0
    /\ clock = 0

IdleKpi ==
    /\ sales_df = EmptyDataFrame
    /\ top_sales_df = EmptyDataFrame
    /\ monthly_df = EmptyDataFrame
    /\ monthly_alt = EmptyDataFrame
    /\ called = {}
    /\ kpi_out = Return(EmptyDataFrame)
    /\ kpi_alt = Return(EmptyDataFrame)

Init == InitPipe /\ IdleKpi

\* lines 39-52 and 186-187
CredentialCheck ==
    /\ pc = "startup"
    /\ IF falsy(PG_USER) \/ falsy(PG_PASS)
       THEN pc' = "config_abort" /\ exit_code' = 1
       ELSE pc' = "main" /\ exit_code' = exit_code
    /\ UNCHANGED <<PG_USER, PG_PASS, db_up, engines, idx, dfs, load_count,
                   failed, last_load, exports, error, kpi_calls, kpi_df,
                   done_logs, clock>>
    /\ UNCHANGED kpiVars

\* line 147: create_engine builds the handle without touching the network
GetEngine ==
    /\ pc = "main"
    /\ engines' = engines + 1
    /\ dfs' = <<>>
    /\ idx' = 1
    /\ pc' = "load"
    /\ UNCHANGED <<PG_USER, PG_PASS, db_up, exit_code, load_count, failed,
                   last_load, exports, error, kpi_calls, kpi_df, done_logs,
                   clock>>
    /\ UNCHANGED kpiVars

\* a plausible slip: no try/except around load_view in the loop
LoadViews_NoCatch ==
    /\ pc = "load"
    /\ idx <= Len(views)
    /\ LET v == views[idx] IN
       \E primary \in ReadOutcomes(v.view), fallback \in ReadOutcomes(v.view) :
         LET r == load_view(v.view, primary, fallback) IN
           /\ last_load' = r
           /\ load_count' = [load_count EXCEPT ![v.view] = @ + 1]
           /\ IF r.raised
              THEN /\ failed' = failed \cup {v.view}
                   /\ dfs' = dfs
                   /\ pc' = "crashed" /\ error' = "load_view" /\ exit_code' = 1
                   /\ idx' = idx
              ELSE /\ failed' = failed
                   /\ dfs' = DictSet(dfs, v.label, r.df)
                   /\ error' = error /\ exit_code' = exit_code
                   /\ IF idx = Len(views)
                      THEN pc' = "export" /\ idx' = 1
                      ELSE pc' = pc /\ idx' = idx + 1
    /\ UNCHANGED <<PG_USER, PG_PASS, db_up, engines, exports,
                   kpi_calls, kpi_df, done_logs, clock>>
    /\ UNCHANGED kpiVars

\* lines 162-167: one iteration of the load loop
LoadViews ==
    /\ pc = "load"
    /\ idx <= Len(views)
    /\ LET v == views[idx] IN
       \E primary \in ReadOutcomes(v.view), fallback \in ReadOutcomes(v.view) :
         LET r == load_view(v.view, primary, fallback) IN
           /\ last_load' = r
           /\ load_count' = [load_count EXCEPT ![v.view] = @ + 1]
           /\ IF r.raised
              THEN /\ failed' = failed \cup {v.view}
                   /\ dfs' = DictSet(dfs, v.label, EmptyDataFrame)
              ELSE /\ failed' = failed
                   /\ dfs' = DictSet(dfs, v.label, r.df)
    /\ IF idx = Len(views)
       THEN pc' = "export" /\ idx' = 1
       ELSE pc' = pc /\ idx' = idx + 1
    /\ UNCHANGED <<PG_USER, PG_PASS, db_up, exit_code, engines, exports, error,
                   kpi_calls, kpi_df, done_logs, clock>>
    /\ UNCHANGED kpiVars

\* a plausible slip: the export loop stops one label early
ExportViews_OneShort ==
    /\ pc = "export"
    /\ idx <= Len(dfs)
    /\ \E t \in clock..MaxClock, written \in BOOLEAN :
         /\ clock' = t
         /\ exports' = Append(exports, export_csv(dfs[idx].label, t))
         /\ IF ~written
            THEN /\ pc' = "crashed" /\ error' = "to_csv" /\ exit_code' = 1
                 /\ idx' = idx
            ELSE /\ error' = error /\ exit_code' = exit_code
                 /\ IF idx >= Len(dfs) - 1
                    THEN pc' = "kpi" /\ idx' = idx
                    ELSE pc' = pc /\ idx' = idx + 1
    /\ UNCHANGED <<PG_USER, PG_PASS, db_up, engines, dfs, load_count, failed,
                   last_load, kpi_calls, kpi_df, done_logs>>
    /\ UNCHANGED kpiVars

\* lines 170-171: one iteration of the export loop; to_csv may raise
ExportViews ==
    /\ pc = "export"
    /\ idx <= Len(dfs)
    /\ \E t \in clock..MaxClock, written \in BOOLEAN :
         /\ clock' = t
         /\ exports' = Append(exports, export_csv(dfs[idx].label, t))
         /\ IF ~written
            THEN /\ pc' = "crashed" /\ error' = "to_csv" /\ exit_code' = 1
                 /\ idx' = idx
            ELSE /\ error' = error /\ exit_code' = exit_code
                 /\ IF idx = Len(dfs)
                    THEN pc' = "kpi" /\ idx' = idx
                    ELSE pc' = pc /\ idx' = idx + 1
    /\ UNCHANGED <<PG_USER, PG_PASS, db_up, engines, dfs, load_count, failed,
                   last_load, kpi_calls, kpi_df, done_logs>>
    /\ UNCHANGED kpiVars

\* lines 174-178
ComputeKpi ==
    /\ pc = "kpi"
    /\ LET r == compute_kpis(DictGet(dfs, "sales_export", EmptyDataFrame),
                             DictGet(dfs, "sales_by_salesperson", EmptyDataFrame),
                             DictGet(dfs, "monthly_sales", EmptyDataFrame)) IN
         /\ kpi_calls' = kpi_calls + 1
         /\ IF r.raised
            THEN /\ pc' = "crashed" /\ error' = "compute_kpis" /\ exit_code' = 1
                 /\ kpi_df' = kpi_df
            ELSE /\ pc' = "kpi_export" /\ error' = error /\ exit_code' = exit_code
                 /\ kpi_df' = r.df
    /\ UNCHANGED <<PG_USER, PG_PASS, db_up, engines, idx, dfs, load_count,
                   failed, last_load, exports, done_logs, clock>>
    /\ UNCHANGED kpiVars

\* the other revision: the KPI export is skipped when kpi_df is empty
ExportKpiSummary_SkipEmpty ==
    /\ pc = "kpi_export"
    /\ IF empty(kpi_df)
       THEN /\ pc' = "done" /\ exit_code' = 0 /\ done_logs' = done_logs + 1
            /\ UNCHANGED <<clock, exports, error>>
       ELSE \E t \in clock..MaxClock, written \in BOOLEAN :
            /\ clock' = t
            /\ exports' = Append(exports, export_csv("kpi_summary", t))
            /\ IF ~written
               THEN /\ pc' = "crashed" /\ error' = "to_csv" /\ exit_code' = 1
                    /\ done_logs' = done_logs
               ELSE /\ pc' = "done" /\ error' = error /\ exit_code' = 0
                    /\ done_logs' = done_logs + 1
    /\ UNCHANGED <<PG_USER, PG_PASS, db_up, engines, idx, dfs, load_count,
                   failed, last_load, kpi_calls, kpi_df>>
    /\ UNCHANGED kpiVars

\* lines 179-181
ExportKpiSummary ==
    /\ pc = "kpi_export"
    /\ \E t \in clock..MaxClock, written \in BOOLEAN :
         /\ clock' = t
         /\ exports' = Append(exports, export_csv("kpi_summary", t))
         /\ IF ~written
            THEN /\ pc' = "crashed" /\ error' = "to_csv" /\ exit_code' = 1
                 /\ done_logs' = done_logs
            ELSE /\ pc' = "done" /\ error' = error /\ exit_code' = 0
                 /\ done_logs' = done_logs + 1
    /\ UNCHANGED <<PG_USER, PG_PASS, db_up, engines, idx, dfs, load_count,
                   failed, last_load, kpi_calls, kpi_df>>
    /\ UNCHANGED kpiVars

Next ==
    \/ CredentialCheck
    \/ GetEngine
    \/ LoadViews
    \/ ExportViews
    \/ ComputeKpi
    \/ ExportKpiSummary

Spec == Init /\ [][Next]_vars

\* the interpreter runs the script to its end: every enabled step is taken
FairSpec == Spec /\ WF_vars(Next)

----------------------------------------------------------------------------
(* compute_kpis called directly on given tables *)

\* the module imported with credentials set; run_pipeline is not started
IdlePipe ==
    /\ PG_USER = "secret"
    /\ PG_PASS = "secret"
    /\ db_up = TRUE
    /\ pc = "imported"
    /\ exit_code = NotExited
    /\ engines = 0
    /\ idx = 0
    /\ dfs = <<>>
    /\ load_count = [v \in ViewNames |-> 0]
    /\ failed = {}
    /\ last_load = NoLoad
    /\ exports = <<>>
    /\ error = NoError
    /\ kpi_calls = 0
    /\ kpi_df = EmptyDataFrame
    /\ done_logs = 0
    /\ clock = 0

InitKpi ==
    /\ IdlePipe
    /\ \/ /\ sales_df \in SalesTablesUpTo(MaxSalesRows) \cup Irregular
          /\ top_sales_df \in TopTablesUpTo(MaxTopRows) \cup Irregular
          /\ monthly_df \in MonthlyTablesUpTo(1) \cup Irregular
       \/ /\ sales_df \in SalesTablesUpTo(1)
          /\ top_sales_df = EmptyDataFrame
          /\ monthly_df \in MonthlyTablesUpTo(MaxMonthlyRows)
    /\ monthly_alt = monthly_df
    /\ called = {}
    /\ kpi_out = Return(EmptyDataFrame)
    /\ kpi_alt = Return(EmptyDataFrame)

\* rows i and i+1 of a table exchanged
SwapRows(df, i) ==
    [df EXCEPT !.rows = [j \in 1..Len(df.rows) |->
        IF j = i THEN df.rows[i + 1]
        ELSE IF j = i + 1 THEN df.rows[i]
        ELSE df.rows[j]]]

CallComputeKpis ==
    /\ pc = "imported"
    /\ "given" \notin called
    /\ called' = called \cup {"given"}
    /\ kpi_out' = compute_kpis(sales_df, top_sales_df, monthly_df)
    /\ UNCHANGED <<sales_df, top_sales_df, monthly_df, monthly_alt, kpi_alt>>
    /\ UNCHANGED pipeVars

\* the same call with the monthly rows in another input order
CallComputeKpisReordered ==
    /\ pc = "imported"
    /\ "reordered" \notin called
    /\ \E i \in 1..(Len(monthly_df.rows) - 1) :
         /\ monthly_alt' = SwapRows(monthly_df, i)
         /\ kpi_alt' = compute_kpis(sales_df, top_sales_df, SwapRows(monthly_df, i))
    /\ called' = called \cup {"reordered"}
    /\ UNCHANGED <<sales_df, top_sales_df, monthly_df, kpi_out>>
    /\ UNCHANGED pipeVars

NextKpi ==
    \/ CallComputeKpis
    \/ CallComputeKpisReordered

SpecKpi == InitKpi /\ [][NextKpi]_vars

\* the script run, or its functions called directly
InitAll == Init \/ InitKpi

NextAll == Next \/ NextKpi

SpecAll == InitAll /\ [][NextAll]_vars

----------------------------------------------------------------------------
(* Properties *)

LabelOf(view) == (CHOOSE e \in Range(views) : e.view = view).label

ExportsOf(name) == {i \in 1..Len(exports) : exports[i].name = name}

LoadPhaseOver == pc \in {"export", "kpi", "kpi_export", "done", "crashed"}

\* C1: a load_view failure, of any subset of the seven views, never ends the
\* run: after the load loop every view was attempted once and every label is
\* bound, a failed view's label to the empty table; the only exception that
\* leaves run_pipeline comes from a CSV write; a finished run made exactly one
\* export_csv call per label, one compute_kpis call and one completion log;
\* and a run that started loading goes on to the completion log unless a CSV
\* write raised.
C1_LoadFailuresTolerated ==
    /\ [](LoadPhaseOver =>
            /\ \A v \in ViewNames : load_count[v] = 1 /\ HasKey(dfs, LabelOf(v))
            /\ \A v \in failed : DictGet(dfs, LabelOf(v), OtherTable) = EmptyDataFrame)
    /\ [](error \in {NoError, "to_csv"})
    /\ [](pc = "done" =>
            /\ \A l \in Labels : Cardinality(ExportsOf(l)) = 1
            /\ kpi_calls = 1
            /\ done_logs = 1)
    /\ ((pc = "load") ~> (pc = "done" \/ error = "to_csv"))

C1_Witness ==
    /\ pc = "done"
    /\ failed = {"summary_sales_country", "summary_sales_person", "vw_null_summary"}
    /\ Len(exports) = 8

\* C2: when the database cannot be reached, the run never reaches the CSV
\* export phase or the completion log.
C2_ConnectionFailureFatal ==
    ~db_up => (exports = <<>> /\ done_logs = 0 /\ pc \notin {"export", "kpi", "kpi_export", "done"})

CredentialsMissing == PG_USER \in {Unset, ""} \/ PG_PASS \in {Unset, ""}

\* C3: with the username or the password unset or empty the process exits
\* with status 1 at the credential check and get_engine, load_view,
\* export_csv and compute_kpis are never called; the credential check exits
\* only in that case, and with both present the run goes on to get_engine.
C3_MissingCredentialsAbort ==
    /\ (CredentialsMissing /\ pc # "startup") =>
            /\ pc = "config_abort"
            /\ exit_code = 1
    /\ CredentialsMissing =>
            /\ engines = 0
            /\ \A v \in ViewNames : load_count[v] = 0
            /\ exports = <<>>
            /\ kpi_calls = 0
    /\ pc = "config_abort" => CredentialsMissing
    /\ (~CredentialsMissing /\ pc # "startup") => (pc = "main" \/ engines = 1)

C3_Witness ==
    /\ pc = "config_abort"
    /\ PG_USER = "secret"
    /\ PG_PASS = ""

\* C4: in the most recent load_view call the SELECT * query was issued iff
\* the table read raised; a successful table read is the result; after a
\* failed table read a successful query is the result; when both raise the
\* call raises and the caller gets no table from it.
C4_FallbackOnlyOnPrimaryError ==
    last_load # NoLoad =>
        /\ last_load.primary.issued
        /\ last_load.fallback.issued <=> last_load.primary.err
        /\ ~last_load.primary.err =>
                /\ ~last_load.raised
                /\ last_load.df = last_load.primary.df
                /\ DictGet(dfs, LabelOf(last_load.view), OtherTable) = last_load.primary.df
        /\ (last_load.primary.err /\ ~last_load.fallback.err) =>
                /\ ~last_load.raised
                /\ last_load.df = last_load.fallback.df
                /\ DictGet(dfs, LabelOf(last_load.view), EmptyDataFrame) = last_load.fallback.df
        /\ (last_load.primary.err /\ last_load.fallback.err) =>
                /\ last_load.raised
                /\ last_load.view \in failed

C4_Witness ==
    /\ last_load.view = "vw_monthly_sales"
    /\ last_load.primary.err
    /\ last_load.fallback.issued
    /\ ~last_load.fallback.err
    /\ ~empty(last_load.df)

\* C5: no two export_csv calls of a run target the same path.
C5_ExportPathsUnique ==
    \A i, j \in 1..Len(exports) : i # j => exports[i].path # exports[j].path

C5_Witness ==
    /\ pc = "done"
    /\ Len(exports) = 8
    /\ \A i \in 1..Len(exports) : exports[i].ts = exports[1].ts

\* C6 as stated: a kpi_summary file is written only when a KPI row was
\* produced; with an empty KPI result there is no kpi_summary export.
C6_KpiExportSkippedWhenEmpty ==
    (kpi_calls = 1 /\ empty(kpi_df)) => ExportsOf("kpi_summary") = {}

\* C6 amended: the KPI export is not skipped: a finished run made exactly one
\* kpi_summary export, the last one, also when the KPI result is empty; the
\* KPI result is empty exactly when the sales-export table is empty or failed
\* to load.
C6_KpiExportUnconditional ==
    /\ pc = "done" =>
            /\ Cardinality(ExportsOf("kpi_summary")) = 1
            /\ exports[Len(exports)].name = "kpi_summary"
    /\ pc \in {"kpi_export", "done"} =>
            /\ empty(kpi_df) <=> empty(DictGet(dfs, "sales_export", OtherTable))
            /\ "vw_sales_export" \in failed => empty(kpi_df)

C6_Witness ==
    /\ pc = "done"
    /\ empty(kpi_df)
    /\ exports[Len(exports)].name = "kpi_summary"

\* C7: compute_kpis returns the empty result, without raising, whenever the
\* sales-export table is empty, whatever the other two tables hold; and one
\* row whenever the sales-export table is non-empty and the three tables have
\* the expected columns.
C7_EmptySalesGivesEmptyKpis ==
    "given" \in called =>
        /\ empty(sales_df) => kpi_out = Return(EmptyDataFrame)
        /\ (/\ ~empty(sales_df)
            /\ SalesCols \subseteq sales_df.cols
            /\ TopCols \subseteq top_sales_df.cols
            /\ MonthlyCols \subseteq monthly_df.cols) =>
                /\ ~kpi_out.raised
                /\ Len(kpi_out.df.rows) = 1

C7_Witness ==
    /\ "given" \in called
    /\ sales_df = [cols |-> SalesCols, rows |-> <<>>]
    /\ top_sales_df = OtherTable
    /\ monthly_df = OtherTable
    /\ kpi_out = Return(EmptyDataFrame)

Later(a, b) == a.year * 12 + a.month > b.year * 12 + b.month

UniqueKeys(df) ==
    \A i, j \in 1..Len(df.rows) :
        i # j => (df.rows[i].year # df.rows[j].year \/ df.rows[i].month # df.rows[j].month)

\* growth of a set of monthly rows with distinct (year, month), in hundredths
ExpectedGrowth(S) ==
    IF Cardinality(S) < 2 THEN 0
    ELSE LET cur == CHOOSE r \in S : \A q \in S \ {r} : Later(r, q)
             prv == CHOOSE r \in S \ {cur} : \A q \in S \ {cur, r} : Later(r, q)
         IN  IF prv.total_sales = 0 THEN 0
             ELSE RoundDiv((cur.total_sales - prv.total_sales) * 10000, prv.total_sales)

GrowthOf(out) == out.df.rows[1].monthly_growth_pct

BothCalled ==
    /\ called = {"given", "reordered"}
    /\ ~empty(sales_df)
    /\ ~kpi_out.raised
    /\ ~kpi_alt.raised

\* C8 as stated: the growth depends only on the set of monthly rows, not on
\* their input order.
C8_GrowthOrderIndependent ==
    BothCalled => GrowthOf(kpi_out) = GrowthOf(kpi_alt)

\* C8 amended: when no two monthly rows share (year, month), the growth does
\* not depend on the input order: it is (current - previous) / previous * 100
\* rounded to two decimals, current and previous being the total_sales of the
\* latest and the second latest month; it is 0 for an empty table, for one
\* row, and when previous is 0.
C8_GrowthOrderIndependentUniqueKeys ==
    /\ (BothCalled /\ UniqueKeys(monthly_df)) =>
            /\ GrowthOf(kpi_out) = GrowthOf(kpi_alt)
            /\ GrowthOf(kpi_alt) = ExpectedGrowth(Range(monthly_alt.rows))
    /\ ("given" \in called /\ ~empty(sales_df) /\ ~kpi_out.raised) =>
            /\ UniqueKeys(monthly_df) =>
                    GrowthOf(kpi_out) = ExpectedGrowth(Range(monthly_df.rows))
            /\ Len(monthly_df.rows) <= 1 => GrowthOf(kpi_out) = 0
            /\ (/\ Len(monthly_df.rows) >= 2
                /\ sort_values(monthly_df.rows)[Len(monthly_df.rows) - 1].total_sales = 0) =>
                    GrowthOf(kpi_out) = 0

C8_Witness ==
    /\ BothCalled
    /\ monthly_df.rows = <<[year |-> 2025, month |-> 9, total_sales |-> 1200],
                           [year |-> 2025, month |-> 8, total_sales |-> 1000]>>
    /\ monthly_alt.rows = <<[year |-> 2025, month |-> 8, total_sales |-> 1000],
                            [year |-> 2025, month |-> 9, total_sales |-> 1200]>>
    /\ GrowthOf(kpi_out) = 2000
    /\ GrowthOf(kpi_alt) = 2000

TopOf(df, top) ==
    /\ Len(df.rows) = 1
    /\ IF Len(top.rows) = 0
       THEN /\ df.rows[1].top_salesperson = "N/A"
            /\ df.rows[1].top_salesperson_revenue = 0
       ELSE /\ df.rows[1].top_salesperson = top.rows[1].sales_person
            /\ df.rows[1].top_salesperson_revenue = top.rows[1].total_sales * 100

\* C9: for a non-empty sales-export table the KPI row names the first row of
\* the salesperson-ranking table in its given order, and "N/A" with revenue 0
\* when that table is empty; in run_pipeline a failed load of the salesperson
\* view still gives a KPI row, with "N/A" and 0, when the sales-export view
\* loaded non-empty.
C9_TopSalespersonIsFirstRow ==
    /\ ("given" \in called /\ ~kpi_out.raised /\ ~empty(sales_df)) =>
            TopOf(kpi_out.df, top_sales_df)
    /\ (pc \in {"kpi_export", "done"}
            /\ ~empty(DictGet(dfs, "sales_export", EmptyDataFrame))) =>
            /\ TopOf(kpi_df, DictGet(dfs, "sales_by_salesperson", OtherTable))
            /\ "summary_sales_person" \in failed =>
                    /\ kpi_df.rows[1].top_salesperson = "N/A"
                    /\ kpi_df.rows[1].top_salesperson_revenue = 0

C9_Witness ==
    /\ pc = "done"
    /\ "summary_sales_person" \in failed
    /\ "vw_sales_export" \notin failed
    /\ Len(kpi_df.rows) = 1
    /\ kpi_df.rows[1].top_salesperson = "N/A"

Rank(p) ==
    CASE p = "startup" -> 0
      [] p = "main" -> 1
      [] p = "load" -> 2
      [] p = "export" -> 3
      [] p = "kpi" -> 4
      [] p = "kpi_export" -> 5
      [] OTHER -> 6

ViewExportsDone ==
    /\ Len(exports) >= Len(views)
    /\ \A i \in 1..Len(views) : exports[i].name = views[i].label

\* C10: a run past the credential check is one pass in a fixed order: one
\* engine; one load attempt per view, all seven before the first export_csv
\* call; the seven view exports before the one compute_kpis call; the KPI
\* export last and the completion log after it; no phase is entered again;
\* and unless a CSV write raises the run ends with the completion log.
C10_SinglePassFixedOrder ==
    /\ [](/\ engines <= 1
          /\ Rank(pc) \in 2..5 \/ pc \in {"done", "crashed"} => engines = 1
          /\ \A v \in ViewNames : load_count[v] <= 1
          /\ exports # <<>> => \A v \in ViewNames : load_count[v] = 1
          /\ kpi_calls <= 1
          /\ kpi_calls = 1 => ViewExportsDone
          /\ Len(exports) > Len(views) =>
                (kpi_calls = 1 /\ Len(exports) = Len(views) + 1
                    /\ exports[Len(exports)].name = "kpi_summary")
          /\ done_logs <= 1
          /\ done_logs = 1 <=> pc = "done"
          /\ pc = "done" => (Len(exports) = Len(views) + 1 /\ kpi_calls = 1)
          /\ pc = "crashed" => error = "to_csv")
    /\ [][/\ Rank(pc') >= Rank(pc)
          /\ pc' = pc => idx' > idx]_pipeVars
    /\ ((pc = "main") ~> (pc = "done" \/ error = "to_csv"))

C10_Witness ==
    /\ pc = "done"
    /\ engines = 1
    /\ Len(exports) = 8
    /\ failed = {}

====
